---- MODULE Spec2Model ----
(***************************************************************************)
(* Model of projects/polymesh/index.js: the Polymesh TVL adapter.          *)
(*                                                                         *)
(* One run of fetch() is modelled together with the asynchronous tasks it  *)
(* starts (price request, total issuance, staking era / era total stake,   *)
(* treasury account).  Every action is one callback of the event loop: the *)
(* completion of one external call followed by everything that runs before *)
(* the next external completion can be delivered (promise reactions run to *)
(* completion in the same turn).                                           *)
(*                                                                         *)
(* JavaScript numbers are modelled as exact rationals <<n, d>> in lowest   *)
(* terms (d > 0), NaN as <<0, 0>>; binary floating-point rounding is not   *)
(* part of the model.  BigInt amounts are integers in smallest units.      *)
(***************************************************************************)
EXTENDS Integers, Sequences, FiniteSets, TLC

\* ------------------------------------------------------------------------
\* Bounds of the model
\* ------------------------------------------------------------------------
\* largest era index the chain reports
MaxEra == 0
\* price numbers of the price source range over -1/10 .. MaxPriceTenths/10
MaxPriceTenths == 1

\* ------------------------------------------------------------------------
\* CONFIG constants
\* ------------------------------------------------------------------------
CHAIN_NAME == "polymesh"
POLYX_DECIMALS == 6
POLYX_FALLBACK_PRICE == <<3, 10>>

\* ------------------------------------------------------------------------
\* Numbers
\* ------------------------------------------------------------------------
NaN == <<0, 0>>

Abs(x) == IF x < 0 THEN 0 - x ELSE x

RECURSIVE GCD(_, _)
GCD(a, b) == IF b = 0 THEN a ELSE GCD(b, a % b)

\* the rational n/d (d > 0) in lowest terms
Norm(n, d) == LET g == GCD(Abs(n), d) IN <<n \div g, d \div g>>

IsNaN(r) == r[2] = 0

\* a * b on numbers
RMul(a, b) ==
  IF IsNaN(a) \/ IsNaN(b) THEN NaN
  ELSE LET g1 == GCD(Abs(a[1]), b[2])
           g2 == GCD(Abs(b[1]), a[2])
       IN  Norm((a[1] \div g1) * (b[1] \div g2), (a[2] \div g2) * (b[2] \div g1))

\* a + b on numbers
RAdd(a, b) ==
  IF IsNaN(a) \/ IsNaN(b) THEN NaN
  ELSE Norm(a[1] * b[2] + b[1] * a[2], a[2] * b[2])

\* a > 0 on numbers (false for NaN)
RPos(a) == ~IsNaN(a) /\ a[1] > 0

\* ------------------------------------------------------------------------
\* JavaScript values that the price source can deliver
\* ------------------------------------------------------------------------
Undefined == [t |-> "undefined", v |-> NaN]
Null == [t |-> "null", v |-> NaN]
Num(r) == [t |-> "number", v |-> r]
\* a non-empty string; v is the number the string converts to (NaN if none)
Str(r) == [t |-> "string", v |-> r]

\* ToBoolean
Truthy(x) ==
  CASE x.t = "undefined" -> FALSE
    [] x.t = "null" -> FALSE
    [] x.t = "number" -> ~IsNaN(x.v) /\ x.v[1] # 0
    [] x.t = "string" -> TRUE

\* ToNumber
ToNumber(x) ==
  CASE x.t = "undefined" -> NaN
    [] x.t = "null" -> <<0, 1>>
    [] x.t = "number" -> x.v
    [] x.t = "string" -> x.v

\* x > 0
GreaterThanZero(x) == RPos(ToNumber(x))

\* ------------------------------------------------------------------------
\* Input domains
\* ------------------------------------------------------------------------
\* response.data?.polymesh?.usd of a completed request
UsdFields ==
  {Undefined, Str(<<1, 2>>), Str(NaN)} \cup {Num(Norm(k, 10)) : k \in -1 .. MaxPriceTenths}

\* outcome of axios.get: ok = FALSE is a network failure or the 5 s timeout
PriceResponses ==
  {[ok |-> FALSE, usd |-> Undefined]} \cup {[ok |-> TRUE, usd |-> u] : u \in UsdFields}

\* values of api.query.balances.totalIssuance(), in smallest units
IssuanceValues == {1000000000, 21000000}
\* values of api.query.staking.erasTotalStake(era), in smallest units
StakeValues == {0, 300000000, 1500000}
\* values of account.data.free, in smallest units
FreeValues == {0, 50000000}

Messages ==
  { "cgFailed", "livePrice", "fallbackPrice", "connectFailed",
    "stakingUnavailable", "noActiveEra", "stakingError",
    "treasurySkip", "treasuryError",
    "chainDataHeader", "issuanceLine", "stakedLine", "treasuryLine",
    "totalTvlLine", "usdLine",
    "demoBanner", "demoHint", "connected", "fetchError", "fallingBack" }

ErrorMessages == {"connectFailed", "fetchError"}
WarnMessages ==
  {"cgFailed", "fallbackPrice", "stakingUnavailable", "noActiveEra",
   "stakingError", "treasuryError"}
InfoMessages == Messages \ (ErrorMessages \cup WarnMessages)

ExternalCalls ==
  {"connect", "priceRequest", "totalIssuance", "activeEra", "erasTotalStake",
   "account", "disconnect"}

VARIABLES
  CONFIG,        \* DEMO_MODE, SILENT_MODE, TREASURY_ACCOUNT
  axiosLoads,    \* whether require("axios") succeeds in this process
  pc,            \* position of fetch()
  polymesh,      \* the local variable polymesh of fetch()
  price,         \* the getPolyxPrice() task
  issuance,      \* the totalIssuance().then(...) task
  staked,        \* the queryTotalStaked(api) task
  treasury,      \* the queryTreasuryBalance(api) task
  chainData,     \* the promise returned by queryChainData(polymesh)
  tvl,           \* the last TVL breakdown produced (calculateTVL or mockData)
  retval,        \* completion of the try/catch blocks, held during finally
  result,        \* what the caller of fetch() received
  connection,    \* the chain connection: none, open, closed, closeFailed
  inFlightAtDisconnect, \* requests still pending when disconnect was called
  stages,        \* the stages fetch() has entered so far, in order
  calls,         \* number of invocations of each external call
  console        \* number of lines written, per message

vars ==
  <<CONFIG, axiosLoads, pc, polymesh, price, issuance, staked, treasury,
    chainData, tvl, retval, result, connection, inFlightAtDisconnect,
    stages, calls, console>>

\* ------------------------------------------------------------------------
\* log
\* ------------------------------------------------------------------------
\* variant: log.error respects SILENT_MODE like the other two
logSilenceAll(level, msg, con) ==
  IF ~CONFIG.SILENT_MODE
  THEN [con EXCEPT ![msg] = @ + 1]
  ELSE con

\* log.info / log.warn / log.error applied to one line; con is the console
log(level, msg, con) ==
  IF level = "error" \/ ~CONFIG.SILENT_MODE
  THEN [con EXCEPT ![msg] = @ + 1]
  ELSE con

\* ------------------------------------------------------------------------
\* unit conversion
\* ------------------------------------------------------------------------
toPolyx(amount) == Norm(amount, 10 ^ POLYX_DECIMALS)

\* ------------------------------------------------------------------------
\* price feed
\* ------------------------------------------------------------------------
\* fetchPolyxPriceFromCoinGecko from the completion resp of axios.get on
\* (when require("axios") throws, no request was made and resp is unused)
fetchPolyxPriceFromCoinGecko(resp, con) ==
  IF axiosLoads /\ resp.ok /\ Truthy(resp.usd)
  THEN [value |-> resp.usd, console |-> con]
  ELSE [value |-> Null, console |-> log("warn", "cgFailed", con)]

\* variant: the result of the CoinGecko request is returned as it is
getPolyxPriceNoFallback(resp, con) ==
  LET f == fetchPolyxPriceFromCoinGecko(resp, con)
  IN  [value |-> f.value, console |-> log("info", "livePrice", f.console)]

\* getPolyxPrice from the completion of the CoinGecko request on
getPolyxPrice(resp, con) ==
  LET f == fetchPolyxPriceFromCoinGecko(resp, con)
  IN  IF Truthy(f.value) /\ GreaterThanZero(f.value)
      THEN [value |-> f.value, console |-> log("info", "livePrice", f.console)]
      ELSE [value |-> Num(POLYX_FALLBACK_PRICE),
            console |-> log("warn", "fallbackPrice", f.console)]

\* ------------------------------------------------------------------------
\* TVL calculation
\* ------------------------------------------------------------------------
NoTvl ==
  [by |-> "none", totalIssuance |-> NaN, totalStaked |-> NaN,
   treasuryBalance |-> NaN, tvlPolyx |-> NaN, tvlUsd |-> NaN,
   polyxPrice |-> Undefined]

\* variant: the TVL is taken from the total issuance
calculateTVLFromIssuance(cd, polyxPrice) ==
  LET tvlInSmallestUnit == cd.totalIssuance
      tvlPolyx == toPolyx(tvlInSmallestUnit)
      tvlUsd == RMul(tvlPolyx, ToNumber(polyxPrice))
  IN  [by |-> "calculateTVL",
       totalIssuance |-> toPolyx(cd.totalIssuance),
       totalStaked |-> toPolyx(cd.totalStaked),
       treasuryBalance |-> toPolyx(cd.treasuryBalance),
       tvlPolyx |-> tvlPolyx,
       tvlUsd |-> tvlUsd,
       polyxPrice |-> polyxPrice]

\* variant: total issuance counted into the TVL sum
calculateTVLWithIssuance(cd, polyxPrice) ==
  LET tvlInSmallestUnit == cd.totalStaked + cd.treasuryBalance + cd.totalIssuance
      tvlPolyx == toPolyx(tvlInSmallestUnit)
      tvlUsd == RMul(tvlPolyx, ToNumber(polyxPrice))
  IN  [by |-> "calculateTVL",
       totalIssuance |-> toPolyx(cd.totalIssuance),
       totalStaked |-> toPolyx(cd.totalStaked),
       treasuryBalance |-> toPolyx(cd.treasuryBalance),
       tvlPolyx |-> tvlPolyx,
       tvlUsd |-> tvlUsd,
       polyxPrice |-> polyxPrice]

calculateTVL(cd, polyxPrice) ==
  LET tvlInSmallestUnit == cd.totalStaked + cd.treasuryBalance
      tvlPolyx == toPolyx(tvlInSmallestUnit)
      tvlUsd == RMul(tvlPolyx, ToNumber(polyxPrice))
  IN  [by |-> "calculateTVL",
       totalIssuance |-> toPolyx(cd.totalIssuance),
       totalStaked |-> toPolyx(cd.totalStaked),
       treasuryBalance |-> toPolyx(cd.treasuryBalance),
       tvlPolyx |-> tvlPolyx,
       tvlUsd |-> tvlUsd,
       polyxPrice |-> polyxPrice]

displayTVLBreakdown(t, con) ==
  LET c1 == log("info", "chainDataHeader", con)
      c2 == log("info", "issuanceLine", c1)
      c3 == log("info", "stakedLine", c2)
      c4 == IF RPos(t.treasuryBalance) THEN log("info", "treasuryLine", c3) ELSE c3
      c5 == log("info", "totalTvlLine", c4)
  IN  log("info", "usdLine", c5)

\* the object { [CONFIG.CHAIN_NAME]: tvlUsd }
AdapterResult(tvlUsd) == [k \in {CHAIN_NAME} |-> tvlUsd]

NoResult == [kind |-> "none", value |-> AdapterResult(NaN)]
Return(v) == [kind |-> "return", value |-> v]
Throw == [kind |-> "throw", value |-> AdapterResult(NaN)]

\* ------------------------------------------------------------------------
\* demo mode
\* ------------------------------------------------------------------------
mockData ==
  [by |-> "fetchDemo",
   totalIssuance |-> <<1000, 1>>,
   totalStaked |-> <<300, 1>>,
   treasuryBalance |-> <<50, 1>>,
   tvlPolyx |-> <<350, 1>>,
   tvlUsd |-> RMul(<<350, 1>>, POLYX_FALLBACK_PRICE),
   polyxPrice |-> Num(POLYX_FALLBACK_PRICE)]

fetchDemo(con) ==
  LET c1 == log("info", "demoBanner", con)
      c2 == log("info", "demoHint", c1)
  IN  [ret |-> Return(AdapterResult(mockData.tvlUsd)),
       tvl |-> mockData,
       console |-> displayTVLBreakdown(mockData, c2)]

\* ------------------------------------------------------------------------
\* chain queries
\* ------------------------------------------------------------------------
IdleTask == [st |-> "idle", v |-> 0, threw |-> FALSE]
NoChainData ==
  [st |-> "none", totalIssuance |-> 0, totalStaked |-> 0, treasuryBalance |-> 0]

\* variant: totalStaked and treasuryBalance swapped in the result
queryChainDataSwapped(cd, i, s, t) ==
  IF cd.st # "pending" THEN cd
  ELSE IF i.st = "failed" THEN [cd EXCEPT !.st = "rejected"]
  ELSE IF i.st = "ok" /\ s.st = "done" /\ t.st = "done"
       THEN [st |-> "resolved", totalIssuance |-> i.v, totalStaked |-> t.v,
             treasuryBalance |-> s.v]
       ELSE cd

\* variant: a failed total-issuance query degrades to 0 like the other two
queryChainDataDegrading(cd, i, s, t) ==
  IF cd.st # "pending" THEN cd
  ELSE IF i.st \in {"ok", "failed"} /\ s.st = "done" /\ t.st = "done"
       THEN [st |-> "resolved", totalIssuance |-> i.v, totalStaked |-> s.v,
             treasuryBalance |-> t.v]
       ELSE cd

\* variant: queryTreasuryBalance without its try/catch
queryChainDataTreasuryUnguarded(cd, i, s, t) ==
  IF cd.st # "pending" THEN cd
  ELSE IF i.st = "failed" \/ t.threw THEN [cd EXCEPT !.st = "rejected"]
  ELSE IF i.st = "ok" /\ s.st = "done" /\ t.st = "done"
       THEN [st |-> "resolved", totalIssuance |-> i.v, totalStaked |-> s.v,
             treasuryBalance |-> t.v]
       ELSE cd

\* queryChainData: the state of its promise, given the state cd it had and
\* the three sub-queries i, s, t as they are now (Promise.all rejects as soon
\* as one element rejects and resolves when all have resolved)
queryChainData(cd, i, s, t) ==
  IF cd.st # "pending" THEN cd
  ELSE IF i.st = "failed" THEN [cd EXCEPT !.st = "rejected"]
  ELSE IF i.st = "ok" /\ s.st = "done" /\ t.st = "done"
       THEN [st |-> "resolved", totalIssuance |-> i.v, totalStaked |-> s.v,
             treasuryBalance |-> t.v]
       ELSE cd

\* the parts of the three sub-queries that run synchronously when
\* queryChainData calls them (up to their first await)
StartTotalIssuance(cl) ==
  [task |-> [st |-> "pending", v |-> 0, threw |-> FALSE],
   calls |-> [cl EXCEPT !["totalIssuance"] = @ + 1]]

\* variant: the era query is issued without testing api.query.staking
StartQueryTotalStakedUnchecked(api, con, cl) ==
  [task |-> [st |-> "era", v |-> 0, threw |-> FALSE, era |-> 0],
   console |-> con, calls |-> [cl EXCEPT !["activeEra"] = @ + 1]]

StartQueryTotalStaked(api, con, cl) ==
  IF ~api.staking
  THEN [task |-> [st |-> "done", v |-> 0, threw |-> FALSE, era |-> 0],
        console |-> log("warn", "stakingUnavailable", con), calls |-> cl]
  ELSE [task |-> [st |-> "era", v |-> 0, threw |-> FALSE, era |-> 0],
        console |-> con, calls |-> [cl EXCEPT !["activeEra"] = @ + 1]]

\* variant: the treasury query is issued without looking at the configuration
StartQueryTreasuryBalanceAlways(con, cl) ==
  [task |-> [st |-> "pending", v |-> 0, threw |-> FALSE],
   console |-> con, calls |-> [cl EXCEPT !["account"] = @ + 1]]

StartQueryTreasuryBalance(con, cl) ==
  IF CONFIG.TREASURY_ACCOUNT = "null"
  THEN [task |-> [st |-> "done", v |-> 0, threw |-> FALSE],
        console |-> log("info", "treasurySkip", con), calls |-> cl]
  ELSE [task |-> [st |-> "pending", v |-> 0, threw |-> FALSE],
        console |-> con, calls |-> [cl EXCEPT !["account"] = @ + 1]]

\* ------------------------------------------------------------------------
\* fetch
\* ------------------------------------------------------------------------
\* requests that have been issued and have not completed
InFlight(p, i, s, t) ==
  (IF p.st = "pending" /\ axiosLoads THEN {"priceRequest"} ELSE {})
  \cup (IF i.st = "pending" THEN {"totalIssuance"} ELSE {})
  \cup (IF s.st = "era" THEN {"activeEra"} ELSE {})
  \cup (IF s.st = "stake" THEN {"erasTotalStake"} ELSE {})
  \cup (IF t.st = "pending" THEN {"account"} ELSE {})

\* the catch block of fetch
fetchCatch(con) ==
  fetchDemo(log("info", "fallingBack", log("error", "fetchError", con)))

\* variant: fetch without the cleanup in finally
fetchFinallyNoCleanup(ret, cl, inflight, stg) ==
  /\ calls' = cl
  /\ result' = ret
  /\ pc' = "done"
  /\ stages' = Append(stg, "Done")
  /\ UNCHANGED <<retval, inFlightAtDisconnect>>

\* variant: polymesh.disconnect() is called but not awaited
fetchFinallyNotAwaited(ret, cl, inflight, stg) ==
  IF polymesh.set
  THEN /\ calls' = [cl EXCEPT !["disconnect"] = @ + 1]
       /\ inFlightAtDisconnect' = inflight
       /\ stages' = stg \o <<"Disconnecting", "Done">>
       /\ result' = ret
       /\ pc' = "done"
       /\ UNCHANGED retval
  ELSE /\ calls' = cl
       /\ result' = ret
       /\ pc' = "done"
       /\ stages' = Append(stg, "Done")
       /\ UNCHANGED <<retval, inFlightAtDisconnect>>

\* the finally block of fetch, entered with completion ret
fetchFinally(ret, cl, inflight, stg) ==
  IF polymesh.set
  THEN /\ calls' = [cl EXCEPT !["disconnect"] = @ + 1]
       /\ inFlightAtDisconnect' = inflight
       /\ stages' = Append(stg, "Disconnecting")
       /\ retval' = ret
       /\ pc' = "disconnecting"
       /\ UNCHANGED result
  ELSE /\ calls' = cl
       /\ result' = ret
       /\ pc' = "done"
       /\ stages' = Append(stg, "Done")
       /\ UNCHANGED <<retval, inFlightAtDisconnect>>

\* variant: a disconnect error makes fetch return the mock result
fallbackOnDisconnectError(ret) == Return(AdapterResult(mockData.tvlUsd))

\* variant: the disconnect error replaces the completion of fetch
rethrowDisconnectError(ret) == Throw

\* the empty catch around polymesh.disconnect(): the completion is kept
ignoreDisconnectError(ret) == ret

\* variant: fetch goes on as soon as the chain data is there, not waiting
\* for the price
fetchResumeNoJoin(p, i, s, t, con, cl) ==
  LET cd == queryChainData(chainData, i, s, t)
  IN  /\ price' = p
      /\ issuance' = i
      /\ staked' = s
      /\ treasury' = t
      /\ chainData' = cd
      /\ IF pc = "fetching" /\ cd.st = "rejected"
         THEN LET d == fetchCatch(con)
              IN  /\ tvl' = d.tvl
                  /\ console' = d.console
                  /\ fetchFinally(d.ret, cl, InFlight(p, i, s, t),
                                  Append(stages, "DemoFallback"))
         ELSE IF pc = "fetching" /\ cd.st = "resolved"
         THEN LET b == calculateTVL(cd, p.value)
              IN  /\ tvl' = b
                  /\ console' = displayTVLBreakdown(b, con)
                  /\ fetchFinally(Return(AdapterResult(b.tvlUsd)), cl,
                                  InFlight(p, i, s, t),
                                  stages \o <<"Calculating", "Reporting">>)
         ELSE /\ console' = con
              /\ calls' = cl
              /\ UNCHANGED <<tvl, pc, retval, result, inFlightAtDisconnect,
                             stages>>
      /\ UNCHANGED <<CONFIG, axiosLoads, polymesh, connection>>

\* fetch after "await Promise.all([getPolyxPrice(), queryChainData(polymesh)])":
\* p, i, s, t are the tasks after the callback that has just run
fetchResume(p, i, s, t, con, cl) ==
  LET cd == queryChainData(chainData, i, s, t)
  IN  /\ price' = p
      /\ issuance' = i
      /\ staked' = s
      /\ treasury' = t
      /\ chainData' = cd
      /\ IF pc = "fetching" /\ cd.st = "rejected"
         THEN LET d == fetchCatch(con)
              IN  /\ tvl' = d.tvl
                  /\ console' = d.console
                  /\ fetchFinally(d.ret, cl, InFlight(p, i, s, t),
                                  Append(stages, "DemoFallback"))
         ELSE IF pc = "fetching" /\ cd.st = "resolved" /\ p.st = "done"
         THEN LET b == calculateTVL(cd, p.value)
              IN  /\ tvl' = b
                  /\ console' = displayTVLBreakdown(b, con)
                  /\ fetchFinally(Return(AdapterResult(b.tvlUsd)), cl,
                                  InFlight(p, i, s, t),
                                  stages \o <<"Calculating", "Reporting">>)
         ELSE /\ console' = con
              /\ calls' = cl
              /\ UNCHANGED <<tvl, pc, retval, result, inFlightAtDisconnect,
                             stages>>
      /\ UNCHANGED <<CONFIG, axiosLoads, polymesh, connection>>

\* variant: fetch without the demo-mode shortcut
FetchNoDemoShortcut ==
  /\ pc = "idle"
  /\ calls' = [calls EXCEPT !["connect"] = @ + 1]
  /\ pc' = "connecting"
  /\ stages' = <<"Connecting">>
  /\ UNCHANGED <<result, tvl, console>>
  /\ UNCHANGED <<CONFIG, axiosLoads, polymesh, price, issuance, staked,
                 treasury, chainData, retval, connection, inFlightAtDisconnect>>

\* fetch is called
Fetch ==
  /\ pc = "idle"
  /\ IF CONFIG.DEMO_MODE
     THEN LET d == fetchDemo(console)
          IN  /\ result' = d.ret
              /\ tvl' = d.tvl
              /\ console' = d.console
              /\ pc' = "done"
              /\ stages' = <<"DemoFallback", "Done">>
              /\ UNCHANGED calls
     ELSE /\ calls' = [calls EXCEPT !["connect"] = @ + 1]
          /\ pc' = "connecting"
          /\ stages' = <<"Connecting">>
          /\ UNCHANGED <<result, tvl, console>>
  /\ UNCHANGED <<CONFIG, axiosLoads, polymesh, price, issuance, staked,
                 treasury, chainData, retval, connection, inFlightAtDisconnect>>

\* Polymesh.connect resolves with a handle; fetch starts both branches
ConnectOk ==
  /\ pc = "connecting"
  /\ \E hasStaking \in BOOLEAN :
       LET pm == [set |-> TRUE, staking |-> hasStaking]
           c1 == log("info", "connected", console)
           cl1 == IF axiosLoads
                  THEN [calls EXCEPT !["priceRequest"] = @ + 1]
                  ELSE calls
           qi == StartTotalIssuance(cl1)
           qs == StartQueryTotalStaked(pm, c1, qi.calls)
           qt == StartQueryTreasuryBalance(qs.console, qs.calls)
       IN  /\ polymesh' = pm
           /\ connection' = "open"
           /\ price' = [st |-> "pending", resp |-> [ok |-> FALSE, usd |-> Undefined],
                        value |-> Undefined]
           /\ issuance' = qi.task
           /\ staked' = qs.task
           /\ treasury' = qt.task
           /\ chainData' = [NoChainData EXCEPT !.st = "pending"]
           /\ console' = qt.console
           /\ calls' = qt.calls
           /\ pc' = "fetching"
           /\ stages' = Append(stages, "FetchingPriceAndChainData")
  /\ UNCHANGED <<CONFIG, axiosLoads, tvl, retval, result, inFlightAtDisconnect>>

\* variant: a failed connect is tried again
ConnectFailRetry ==
  /\ pc = "connecting"
  /\ calls["connect"] < 3
  /\ calls' = [calls EXCEPT !["connect"] = @ + 1]
  /\ console' = log("error", "connectFailed", console)
  /\ UNCHANGED <<CONFIG, axiosLoads, pc, polymesh, price, issuance, staked,
                 treasury, chainData, tvl, retval, result, connection,
                 inFlightAtDisconnect, stages>>

\* Polymesh.connect rejects: initializePolymesh logs and rethrows, fetch
\* catches, falls back and runs finally with polymesh undefined
ConnectFail ==
  /\ pc = "connecting"
  /\ LET c1 == log("error", "connectFailed", console)
         d == fetchCatch(c1)
     IN  /\ tvl' = d.tvl
         /\ console' = d.console
         /\ fetchFinally(d.ret, calls, {}, Append(stages, "DemoFallback"))
  /\ UNCHANGED <<CONFIG, axiosLoads, polymesh, price, issuance, staked,
                 treasury, chainData, connection>>

\* the CoinGecko request completes (or require("axios") has thrown)
PriceDone ==
  /\ price.st = "pending"
  /\ \E resp \in (IF axiosLoads THEN PriceResponses
                   ELSE {[ok |-> FALSE, usd |-> Undefined]}) :
       LET g == getPolyxPrice(resp, console)
       IN  fetchResume([st |-> "done", resp |-> resp, value |-> g.value],
                       issuance, staked, treasury, g.console, calls)

\* totalIssuance() resolves and .then converts it to a BigInt
IssuanceOk ==
  /\ issuance.st = "pending"
  /\ \E v \in IssuanceValues :
       fetchResume(price, [st |-> "ok", v |-> v, threw |-> FALSE],
                   staked, treasury, console, calls)

\* totalIssuance() rejects
IssuanceFail ==
  /\ issuance.st = "pending"
  /\ fetchResume(price, [st |-> "failed", v |-> 0, threw |-> TRUE],
                 staked, treasury, console, calls)

\* queryTotalStaked after "await api.query.staking.activeEra()"
ActiveEraDone ==
  /\ staked.st = "era"
  /\ \/ \* the query throws
        fetchResume(price, issuance,
                    [staked EXCEPT !.st = "done", !.v = 0, !.threw = TRUE],
                    treasury, log("warn", "stakingError", console), calls)
     \/ \* no active era
        fetchResume(price, issuance, [staked EXCEPT !.st = "done", !.v = 0],
                    treasury, log("warn", "noActiveEra", console), calls)
     \/ \E era \in 0 .. MaxEra :
          fetchResume(price, issuance, [staked EXCEPT !.st = "stake", !.era = era],
                      treasury, console,
                      [calls EXCEPT !["erasTotalStake"] = @ + 1])

\* queryTotalStaked after "await api.query.staking.erasTotalStake(currentEra)"
ErasTotalStakeDone ==
  /\ staked.st = "stake"
  /\ \/ \* the query throws
        fetchResume(price, issuance,
                    [staked EXCEPT !.st = "done", !.v = 0, !.threw = TRUE],
                    treasury, log("warn", "stakingError", console), calls)
     \/ \* totalStake is empty
        fetchResume(price, issuance, [staked EXCEPT !.st = "done", !.v = 0],
                    treasury, console, calls)
     \/ \E v \in StakeValues :
          fetchResume(price, issuance, [staked EXCEPT !.st = "done", !.v = v],
                      treasury, console, calls)

\* queryTreasuryBalance after "await api.query.system.account(...)"
TreasuryDone ==
  /\ treasury.st = "pending"
  /\ \/ \* the query throws
        fetchResume(price, issuance, staked,
                    [st |-> "done", v |-> 0, threw |-> TRUE],
                    log("warn", "treasuryError", console), calls)
     \/ \* the account has no data.free
        fetchResume(price, issuance, staked,
                    [st |-> "done", v |-> 0, threw |-> FALSE], console, calls)
     \/ \E v \in FreeValues :
          fetchResume(price, issuance, staked,
                      [st |-> "done", v |-> v, threw |-> FALSE], console, calls)

\* polymesh.disconnect() resolves; fetch completes with the held completion
DisconnectOk ==
  /\ pc = "disconnecting"
  /\ connection' = "closed"
  /\ result' = retval
  /\ pc' = "done"
  /\ stages' = Append(stages, "Done")
  /\ UNCHANGED <<CONFIG, axiosLoads, polymesh, price, issuance, staked,
                 treasury, chainData, tvl, retval, inFlightAtDisconnect,
                 calls, console>>

\* polymesh.disconnect() throws or rejects
DisconnectFail ==
  /\ pc = "disconnecting"
  /\ connection' = "closeFailed"
  /\ result' = ignoreDisconnectError(retval)
  /\ pc' = "done"
  /\ stages' = Append(stages, "Done")
  /\ UNCHANGED <<CONFIG, axiosLoads, polymesh, price, issuance, staked,
                 treasury, chainData, tvl, retval, inFlightAtDisconnect,
                 calls, console>>

Init ==
  /\ CONFIG \in [DEMO_MODE : BOOLEAN, SILENT_MODE : BOOLEAN,
                 TREASURY_ACCOUNT : {"null", "treasury"}]
  /\ axiosLoads \in BOOLEAN
  /\ pc = "idle"
  /\ polymesh = [set |-> FALSE, staking |-> FALSE]
  /\ price = [st |-> "idle", resp |-> [ok |-> FALSE, usd |-> Undefined],
              value |-> Undefined]
  /\ issuance = IdleTask
  /\ staked = [st |-> "idle", v |-> 0, threw |-> FALSE, era |-> 0]
  /\ treasury = IdleTask
  /\ chainData = NoChainData
  /\ tvl = NoTvl
  /\ retval = NoResult
  /\ result = NoResult
  /\ connection = "none"
  /\ inFlightAtDisconnect = {}
  /\ stages = << >>
  /\ calls = [c \in ExternalCalls |-> 0]
  /\ console = [m \in Messages |-> 0]

Next ==
  \/ Fetch
  \/ ConnectOk
  \/ ConnectFail
  \/ PriceDone
  \/ IssuanceOk
  \/ IssuanceFail
  \/ ActiveEraDone
  \/ ErasTotalStakeDone
  \/ TreasuryDone
  \/ DisconnectOk
  \/ DisconnectFail

Spec == Init /\ [][Next]_vars

\* the completion, with either outcome, of an external call that is pending
Completion ==
  \/ ConnectOk
  \/ ConnectFail
  \/ PriceDone
  \/ IssuanceOk
  \/ IssuanceFail
  \/ ActiveEraDone
  \/ ErasTotalStakeDone
  \/ TreasuryDone
  \/ DisconnectOk
  \/ DisconnectFail

\* the external calls do not stay pending for ever: while one is pending,
\* one of them eventually completes
FairSpec == Spec /\ WF_vars(Completion)

TypeOK ==
  /\ pc \in {"idle", "connecting", "fetching", "disconnecting", "done"}
  /\ connection \in {"none", "open", "closed", "closeFailed"}
  /\ result.kind \in {"none", "return", "throw"}

\* ------------------------------------------------------------------------
\* Properties
\* ------------------------------------------------------------------------
DemoResult == Return(AdapterResult(<<105, 1>>))
ErrorLines == console["connectFailed"] + console["fetchError"]
ConnectFailed == ~CONFIG.DEMO_MODE /\ pc = "done" /\ ~polymesh.set
IsAdapterResult(r) ==
  /\ r.kind = "return"
  /\ DOMAIN r.value = {CHAIN_NAME}
  /\ ~IsNaN(r.value[CHAIN_NAME])

\* C1: whatever connect, the price request, the chain queries and disconnect
\* do, and for either value of DEMO_MODE, fetch never completes by throwing,
\* and when it is done the caller holds a mapping from "polymesh" to a number.
C1_AlwaysReturns ==
  /\ result.kind # "throw"
  /\ retval.kind # "throw"
  /\ pc = "done" => IsAdapterResult(result)
  /\ pc # "done" => result.kind = "none"

C1_Witness ==
  /\ pc = "done"
  /\ ~CONFIG.DEMO_MODE
  /\ connection = "closeFailed"
  /\ chainData.st = "resolved"
  /\ price.st = "done" /\ ~price.resp.ok
  /\ staked.threw
  /\ IsAdapterResult(result)

\* C2: disconnect is invoked at most once; a non-demo run whose connect
\* succeeded has invoked it exactly once when it is done, whatever path it
\* took; a demo run and a run whose connect failed never invoke it.
C2_DisconnectOnce ==
  /\ calls["disconnect"] <= 1
  /\ (pc = "done" /\ polymesh.set) => calls["disconnect"] = 1
  /\ (CONFIG.DEMO_MODE \/ ~polymesh.set) => calls["disconnect"] = 0
  /\ connection \in {"closed", "closeFailed"} => calls["disconnect"] = 1

C2_Witness ==
  /\ pc = "done"
  /\ polymesh.set
  /\ chainData.st = "rejected"
  /\ calls["disconnect"] = 1

\* C3 (as claimed): when connect throws in a non-demo run, the result is the
\* demo output and exactly one error-level line was written in the run.
C3_ConnectFailLoggedOnce ==
  ConnectFailed => (result = DemoResult /\ ErrorLines = 1)

\* C4: with DEMO_MODE set, fetch makes no external call of any kind and
\* returns the fixed mock result {polymesh: 105}.
C4_DemoNoNetwork ==
  CONFIG.DEMO_MODE =>
    /\ \A c \in ExternalCalls : calls[c] = 0
    /\ connection = "none"
    /\ pc \in {"idle", "done"}
    /\ pc = "done" => (result = DemoResult /\ tvl = mockData)

C4_Witness == CONFIG.DEMO_MODE /\ pc = "done" /\ result = DemoResult

SomeSubQueryThrew == issuance.threw \/ staked.threw \/ treasury.threw

\* C5 (as claimed): if any of the three chain sub-queries throws,
\* queryChainData is not rejected, and its ChainData has the failing field 0.
C5_AnySubQueryDegrades ==
  SomeSubQueryThrew =>
    /\ chainData.st # "rejected"
    /\ chainData.st = "resolved" =>
         /\ issuance.threw => chainData.totalIssuance = 0
         /\ staked.threw => chainData.totalStaked = 0
         /\ treasury.threw => chainData.treasuryBalance = 0

\* C5 (amended): queryChainData is rejected exactly when the total-issuance
\* query has thrown; otherwise, once the three sub-queries have completed it
\* is resolved with all three fields, a staking or treasury sub-query that
\* threw contributing 0 and the others the queried values.
C5_GuardedSubQueriesDegrade ==
  /\ chainData.st = "rejected" <=> issuance.st = "failed"
  /\ (issuance.st = "ok" /\ staked.st = "done" /\ treasury.st = "done") =>
       /\ chainData.st = "resolved"
       /\ chainData.totalIssuance = issuance.v
       /\ chainData.totalStaked = (IF staked.threw THEN 0 ELSE staked.v)
       /\ chainData.treasuryBalance = (IF treasury.threw THEN 0 ELSE treasury.v)

C5_Witness ==
  /\ staked.threw
  /\ treasury.st = "done" /\ treasury.v > 0
  /\ chainData.st = "resolved"
  /\ chainData.totalStaked = 0

\* C6: in a non-demo run whose connect succeeded, a failed total-issuance
\* query switches the run to the fallback: the breakdown is the mock data,
\* the result is the demo output whatever the price, staking and treasury
\* values are, and the error line is written also in silent mode.
C6_IssuanceFailureFallsBack ==
  issuance.st = "failed" =>
    /\ pc \in {"disconnecting", "done"}
    /\ tvl = mockData
    /\ console["fetchError"] = 1
    /\ pc = "disconnecting" => retval = DemoResult
    /\ pc = "done" => result = DemoResult

C6_Witness ==
  /\ issuance.st = "failed"
  /\ pc = "done"
  /\ CONFIG.SILENT_MODE
  /\ price.st = "done" /\ price.value # Num(POLYX_FALLBACK_PRICE)
  /\ staked.st = "done" /\ staked.v > 0
  /\ result = DemoResult

\* C7 (as claimed): getPolyxPrice returns the field of the response when the
\* request succeeded and the field is a number greater than 0, and exactly the
\* fallback price 0.3 in every other case.
C7_LivePriceOnlyIfPositiveNumber ==
  price.st = "done" =>
    price.value =
      (IF axiosLoads /\ price.resp.ok /\ price.resp.usd.t = "number"
          /\ RPos(price.resp.usd.v)
       THEN price.resp.usd
       ELSE Num(POLYX_FALLBACK_PRICE))

\* C8: every breakdown produced by calculateTVL or fetchDemo has
\* tvlPolyx = totalStaked + treasuryBalance (native units) and
\* tvlUsd = tvlPolyx * price; with staked 300_000000, treasury 50_000000,
\* issuance 1000_000000 and price 0.3 it has tvlPolyx = 350 and tvlUsd = 105.
C8_BreakdownInvariant ==
  tvl.by # "none" =>
    /\ tvl.tvlPolyx = RAdd(tvl.totalStaked, tvl.treasuryBalance)
    /\ tvl.tvlUsd = RMul(tvl.tvlPolyx, ToNumber(tvl.polyxPrice))
    /\ ( /\ tvl.totalStaked = <<300, 1>>
         /\ tvl.treasuryBalance = <<50, 1>>
         /\ ToNumber(tvl.polyxPrice) = <<3, 10>> )
       => (tvl.tvlPolyx = <<350, 1>> /\ tvl.tvlUsd = <<105, 1>>)

C8_Witness ==
  /\ tvl.by = "calculateTVL"
  /\ chainData.st = "resolved"
  /\ chainData.totalStaked = 300000000
  /\ chainData.treasuryBalance = 50000000
  /\ chainData.totalIssuance = 1000000000
  /\ ToNumber(tvl.polyxPrice) = <<3, 10>>
  /\ tvl.tvlPolyx = <<350, 1>>
  /\ tvl.tvlUsd = <<105, 1>>

\* C9: with TREASURY_ACCOUNT null the account query is never issued, the
\* treasury sub-query yields 0 at once, the only line it writes is the info
\* line (no warning, no error), and the fallback is entered only for a failed
\* connect or a failed total-issuance query.
C9_TreasuryUnconfigured ==
  CONFIG.TREASURY_ACCOUNT = "null" =>
    /\ calls["account"] = 0
    /\ console["treasuryError"] = 0
    /\ treasury.st \in {"idle", "done"}
    /\ treasury.v = 0 /\ ~treasury.threw
    /\ treasury.st = "done" =>
         console["treasurySkip"] = (IF CONFIG.SILENT_MODE THEN 0 ELSE 1)
    /\ chainData.st = "resolved" => chainData.treasuryBalance = 0
    /\ tvl.by = "calculateTVL" => tvl.treasuryBalance = <<0, 1>>
    /\ console["fetchError"] > 0 => (issuance.st = "failed" \/ ~polymesh.set)

C9_Witness ==
  /\ CONFIG.TREASURY_ACCOUNT = "null"
  /\ ~CONFIG.SILENT_MODE
  /\ pc = "done"
  /\ tvl.by = "calculateTVL"
  /\ console["treasurySkip"] = 1
  /\ calls["account"] = 0
  /\ staked.v > 0

OnlyTreasuryThrew ==
  /\ CONFIG.TREASURY_ACCOUNT # "null"
  /\ treasury.threw
  /\ issuance.st = "ok"
  /\ staked.st = "done" /\ ~staked.threw
  /\ price.st = "done"

\* C10: with a treasury account configured, when only the account query
\* throws the run completes on the live path: no fallback, treasury 0,
\* issuance and staked as queried, result = staked (native units) * price.
C10_TreasuryFailureStaysLive ==
  OnlyTreasuryThrew =>
    LET live == Return(AdapterResult(RMul(toPolyx(staked.v), ToNumber(price.value))))
    IN  /\ pc \in {"disconnecting", "done"}
        /\ console["fetchError"] = 0 /\ console["fallingBack"] = 0
        /\ tvl.by = "calculateTVL"
        /\ tvl.treasuryBalance = <<0, 1>>
        /\ tvl.totalIssuance = toPolyx(issuance.v)
        /\ tvl.totalStaked = toPolyx(staked.v)
        /\ pc = "disconnecting" => retval = live
        /\ pc = "done" => result = live

C10_Witness ==
  /\ OnlyTreasuryThrew
  /\ pc = "done"
  /\ staked.v = 300000000
  /\ result = Return(AdapterResult(RMul(<<300, 1>>, ToNumber(price.value))))

StakingWarnings ==
  console["stakingUnavailable"] + console["noActiveEra"] + console["stakingError"]
WarnedOnce(msg) == console[msg] = (IF CONFIG.SILENT_MODE THEN 0 ELSE 1)

\* C11: queryTotalStaked never fails: with the staking module missing, with
\* no active era, or with the era query or the era-total-stake query
\* throwing it yields 0 with one warning (written unless silent mode is
\* on), and erasTotalStake is called only once activeEra has returned an era.
C11_StakedNeverThrows ==
  /\ staked.st \in {"idle", "era", "stake", "done"}
  /\ (polymesh.set /\ ~polymesh.staking) =>
       /\ staked.st = "done" /\ staked.v = 0
       /\ calls["activeEra"] = 0 /\ calls["erasTotalStake"] = 0
       /\ WarnedOnce("stakingUnavailable")
  /\ staked.threw =>
       /\ staked.st = "done" /\ staked.v = 0
       /\ WarnedOnce("stakingError")
  /\ (staked.st = "done" /\ ~staked.threw /\ calls["activeEra"] = 1
        /\ calls["erasTotalStake"] = 0) =>
       (staked.v = 0 /\ WarnedOnce("noActiveEra"))
  /\ staked.st = "era" => calls["erasTotalStake"] = 0
  /\ calls["erasTotalStake"] = 1 =>
       (calls["activeEra"] = 1 /\ staked.st \in {"stake", "done"})
  /\ chainData.st = "rejected" => issuance.st = "failed"

C11_Witness ==
  /\ staked.st = "done"
  /\ staked.threw
  /\ calls["erasTotalStake"] = 1
  /\ ~CONFIG.SILENT_MODE
  /\ console["stakingError"] = 1
  /\ chainData.st = "resolved"
  /\ chainData.totalStaked = 0

PriceSourceFailed == price.st = "done" /\ ~(axiosLoads /\ price.resp.ok)

OnlyPriceFailed ==
  /\ PriceSourceFailed
  /\ chainData.st = "resolved"
  /\ ~SomeSubQueryThrew

\* C12: when connect and all chain queries succeed and only the price source
\* fails, the run stays on the live path (no error line, no fallback) and
\* returns (totalStaked + treasuryBalance in native units) * 0.3, computed
\* from the queried values.
C12_PriceFailureStaysLive ==
  OnlyPriceFailed =>
    LET live ==
          Return(AdapterResult(RMul(toPolyx(staked.v + treasury.v),
                                    POLYX_FALLBACK_PRICE)))
    IN  /\ pc \in {"disconnecting", "done"}
        /\ price.value = Num(POLYX_FALLBACK_PRICE)
        /\ tvl.by = "calculateTVL"
        /\ console["fetchError"] = 0 /\ console["fallingBack"] = 0
        /\ console["demoBanner"] = 0
        /\ pc = "disconnecting" => retval = live
        /\ pc = "done" => result = live

C12_Witness ==
  /\ OnlyPriceFailed
  /\ pc = "done"
  /\ staked.v = 1500000
  /\ treasury.v = 50000000
  /\ tvl.by = "calculateTVL"
  /\ result = Return(AdapterResult(RMul(<<103, 2>>, <<3, 10>>)))

\* C13: a breakdown is calculated only when the price fetch and the three
\* chain sub-queries of the run have all completed; while one of them is
\* pending fetch is still waiting and no live breakdown exists.
C13_CalculationAfterJoin ==
  /\ tvl.by = "calculateTVL" =>
       /\ price.st = "done"
       /\ issuance.st = "ok"
       /\ staked.st = "done"
       /\ treasury.st = "done"
       /\ tvl = calculateTVL(chainData, price.value)
  /\ (pc = "fetching" /\ issuance.st # "failed") => tvl.by = "none"

C13_Witness ==
  /\ tvl.by = "calculateTVL"
  /\ pc = "disconnecting"
  /\ staked.threw
  /\ treasury.st = "done" /\ treasury.v > 0
  /\ price.st = "done" /\ price.resp.ok

\* the completion fetch has before its finally block, from what the run got
ExpectedCompletion ==
  IF chainData.st = "rejected"
  THEN DemoResult
  ELSE Return(AdapterResult(
         RMul(toPolyx(chainData.totalStaked + chainData.treasuryBalance),
              ToNumber(price.value))))

\* C14: whether polymesh.disconnect() succeeds or throws, fetch returns the
\* completion it had before the cleanup (the live value on the live path,
\* the mock value on the fallback path); a disconnect failure adds no error
\* line and no fallback.
C14_DisconnectFailureSwallowed ==
  connection \in {"closed", "closeFailed"} =>
    /\ pc = "done"
    /\ result = retval
    /\ result = ExpectedCompletion
    /\ tvl.by = (IF chainData.st = "rejected" THEN "fetchDemo" ELSE "calculateTVL")
    /\ console["fetchError"] = (IF chainData.st = "rejected" THEN 1 ELSE 0)
    /\ console["connectFailed"] = 0

C14_Witness ==
  /\ connection = "closeFailed"
  /\ pc = "done"
  /\ tvl.by = "calculateTVL"
  /\ result = ExpectedCompletion
  /\ result # DemoResult
  /\ console["fetchError"] = 0

LiveOrder ==
  <<"Connecting", "FetchingPriceAndChainData", "Calculating", "Reporting",
    "Disconnecting", "Done">>

NothingFailed ==
  /\ ~CONFIG.DEMO_MODE
  /\ ~ConnectFailed
  /\ issuance.st # "failed"
  /\ connection # "closeFailed"

ChainOrPriceCalls ==
  calls["priceRequest"] + calls["totalIssuance"] + calls["activeEra"]
    + calls["erasTotalStake"] + calls["account"]

\* C15: in a non-demo run in which nothing fails, fetch enters its stages in
\* the order Connecting, FetchingPriceAndChainData, Calculating, Reporting,
\* Disconnecting, Done: no price or chain request is made before connect
\* returned the handle, disconnect is called only after the breakdown was
\* reported, and the caller has the result only after disconnect completed.
C15_StageOrder ==
  NothingFailed =>
    /\ Len(stages) <= Len(LiveOrder)
    /\ stages = SubSeq(LiveOrder, 1, Len(stages))
    /\ pc = "done" => stages = LiveOrder
    /\ ChainOrPriceCalls > 0 => (polymesh.set /\ connection # "none")
    /\ calls["disconnect"] > 0 =>
         /\ tvl.by = "calculateTVL"
         /\ WarnedOnce("usdLine")
    /\ result.kind # "none" => (connection = "closed" /\ pc = "done")

C15_Witness ==
  /\ NothingFailed
  /\ pc = "done"
  /\ stages = LiveOrder
  /\ connection = "closed"
  /\ ~SomeSubQueryThrew
  /\ price.resp.ok /\ price.value = price.resp.usd

\* C16: the total issuance does not enter the result: a live run returns
\* what the run with any other total-issuance value and the same staked,
\* treasury and price values returns.
C16_IssuanceExcluded ==
  tvl.by = "calculateTVL" =>
    \A v \in IssuanceValues :
      LET other == calculateTVL([chainData EXCEPT !.totalIssuance = v], price.value)
      IN  /\ other.tvlPolyx = tvl.tvlPolyx
          /\ other.tvlUsd = tvl.tvlUsd
          /\ pc = "disconnecting" => retval = Return(AdapterResult(other.tvlUsd))
          /\ pc = "done" => result = Return(AdapterResult(other.tvlUsd))

C16_Witness ==
  /\ tvl.by = "calculateTVL"
  /\ pc = "done"
  /\ issuance.v = 21000000
  /\ staked.v = 300000000
  /\ treasury.v = 50000000
  /\ result = Return(AdapterResult(RMul(<<350, 1>>, ToNumber(price.value))))

\* the result of the run, from what the run got
ExpectedResult ==
  IF CONFIG.DEMO_MODE \/ ConnectFailed THEN DemoResult ELSE ExpectedCompletion

\* C17: with SILENT_MODE on no info line and no warning line is written,
\* the error lines are written exactly as with SILENT_MODE off (one
\* "Failed to connect" line for a failed connect, one "Error fetching" line
\* for every fallback), and the result does not depend on SILENT_MODE.
C17_SilentMode ==
  /\ CONFIG.SILENT_MODE =>
       \A m \in InfoMessages \cup WarnMessages : console[m] = 0
  /\ console["connectFailed"] = (IF ConnectFailed THEN 1 ELSE 0)
  /\ console["fetchError"] =
       (IF ConnectFailed \/ issuance.st = "failed" THEN 1 ELSE 0)
  /\ price.st = "done" => price.value = getPolyxPrice(price.resp, console).value
  /\ pc = "done" => result = ExpectedResult

C17_Witness ==
  /\ CONFIG.SILENT_MODE
  /\ pc = "done"
  /\ ConnectFailed
  /\ ErrorLines = 2
  /\ \A m \in InfoMessages \cup WarnMessages : console[m] = 0
  /\ result = DemoResult

ChainQueries == {"totalIssuance", "activeEra", "erasTotalStake", "account"}

\* C18 (as claimed): disconnect is never called while a chain sub-query
\* started on the connection is still pending.
C18_NoDisconnectWhilePending ==
  inFlightAtDisconnect \cap ChainQueries = {}

Forward ==
  { <<"idle", "connecting">>, <<"idle", "done">>, <<"connecting", "fetching">>,
    <<"connecting", "done">>, <<"fetching", "disconnecting">>,
    <<"disconnecting", "done">> }

\* C19: if every external call that is made eventually succeeds or fails,
\* a run of fetch that has started eventually is done; no external call is
\* made twice and fetch never goes back to an earlier position.
C19_Terminates ==
  /\ [](\A c \in ExternalCalls : calls[c] <= 1)
  /\ [][pc' # pc => <<pc, pc'>> \in Forward]_vars
  /\ (pc # "idle") ~> (pc = "done")

C19_Witness ==
  /\ pc = "done"
  /\ ~CONFIG.DEMO_MODE
  /\ connection \in {"closed", "closeFailed"}
  /\ calls["connect"] = 1
  /\ calls["erasTotalStake"] = 1
  /\ calls["account"] = 1
  /\ calls["disconnect"] = 1
  /\ result.kind = "return"

====
